---- MODULE Spec2Model ----
(***************************************************************************)
(* Model of fdp-api/python/metadata.py: FAIRConfigReader (reading and      *)
(* validating the section/field/value metadata) and FAIRGraph (mapping     *)
(* (section, field, value) triples onto per-resource graph contexts).      *)
(*                                                                         *)
(* Strings that the code takes apart are modelled by their parts:          *)
(*   - a section header is the sequence sh.split('/') of its segments,     *)
(*     so 'catalog/c1' is <<"catalog", "c1">> and 'fdp' is <<"fdp">>;      *)
(*   - a schema field is the sequence field.split('|') of its              *)
(*     alternatives, so 'access_url|download_url' is                       *)
(*     <<"access_url", "download_url">>;                                   *)
(*   - a metadata value is [isList, items]: a str has one item, a list     *)
(*     (a raw value with line breaks) has one item per line.               *)
(* A Python 2 dict has one iteration order per content, which the code     *)
(* does not control: the _metadata dict is the sequence of its sections in *)
(* that order, and every order of the headers is possible.                 *)
(***************************************************************************)
EXTENDS Integers, Sequences, FiniteSets, TLC

VARIABLES
  parser,    \* the SafeConfigParser's content: header -> field -> lines of the raw value
  order,     \* the iteration order of the reader's _metadata dict over its headers
  vresult,   \* how FAIRConfigReader._validate ended; "none" before it ran
  cursor,    \* how many triples of getTriples() the loading loop has consumed
  graph,     \* FAIRGraph._graph: the quads of the ConjunctiveGraph
  last,      \* the last setMetadata call: its triple, the one before, the graph before it
  ncalls     \* the number of direct setMetadata calls made so far

vars == <<parser, order, vresult, cursor, graph, last, ncalls>>

(***************************************************************************)
(* Schema tables                                                           *)
(***************************************************************************)
Kinds == {"fdp", "catalog", "dataset", "distribution"}

\* _CORE_META
CORE_META == << <<"title">>, <<"publisher">>, <<"version">>, <<"issued">>, <<"modified">> >>

\* _REQUIRED_META, each field split at '|'
REQUIRED_META ==
  [k \in Kinds |->
     CASE k = "fdp"          -> CORE_META \o << <<"fdp_id">>, <<"catalog_id">> >>
       [] k = "catalog"      -> CORE_META \o << <<"dataset_id">>, <<"theme_taxonomy">> >>
       [] k = "dataset"      -> CORE_META \o << <<"distribution_id">>, <<"theme">> >>
       [] k = "distribution" -> CORE_META \o << <<"access_url", "download_url">>,
                                                <<"media_type">>, <<"license">> >>]

\* [fdp_id, cat_id, dat_id, dist_id] of _validate
ID_FIELDS == {"fdp_id", "catalog_id", "dataset_id", "distribution_id"}

(***************************************************************************)
(* String primitives over the tokens the model uses                        *)
(***************************************************************************)
\* kind in tok, Python's substring test, for the tokens of the model: a token
\* contains a kind name when it is that name or one of the listed longer tokens.
SubstringOf(kind, tok) ==
  \/ tok = kind
  \/ <<kind, tok>> \in { <<"dataset", "dataset1">> }

\* kind in sh for a whole header: kind names hold no '/', so an occurrence
\* lies inside one segment.
Occurs(kind, sh) == \E i \in 1..Len(sh) : SubstringOf(kind, sh[i])

(***************************************************************************)
(* FAIRConfigReader._validate                                              *)
(***************************************************************************)
Outcome(e, f, s, i, k) == [err |-> e, field |-> f, section |-> s, id |-> i, kind |-> k]
Ok                 == Outcome("ok", <<>>, <<>>, "", "")
Raised(e)          == Outcome(e, <<>>, <<>>, "", "")
\* _errorSectionNotFound(section)
MissingSection(k)  == Outcome("MissingSection", <<>>, <<>>, "", k)
\* _errorFieldNotFound(field, section)
MissingField(f, s) == Outcome("MissingField", f, s, "", "")
\* _errorResourceIdNotUnique(id)
DuplicateResourceId(i) == Outcome("DuplicateResourceId", <<>>, <<>>, i, "")
\* _errorReferenceNotFound(section, field, ref_section_by_field)
DanglingReference(parent, f, child) == Outcome("DanglingReference", <<f>>, <<parent>>, "", child)

\* _arrfy: a str becomes a one-element list, a list is itself
arrfy(value) == value.items

\* sections = dict((section, []) for section in _REQUIRED_META.keys()):
\* each entry is a list of ids, or True once a bare header of that kind is seen
EmptySections == [k \in Kinds |-> [isTrue |-> FALSE, ids |-> <<>>]]

\* the loop "for sh in section_headers" that groups the header ids by kind
RECURSIVE GroupHeaders(_, _, _)
GroupHeaders(md, i, sections) ==
  IF i > Len(md) THEN [err |-> "ok", sections |-> sections]
  ELSE
    LET sh == md[i].hdr
        s1 == IF Len(sh) = 1 /\ sh[1] \in Kinds
              THEN [sections EXCEPT ![sh[1]] = [isTrue |-> TRUE, ids |-> <<>>]]
              ELSE sections
    IN IF Len(sh) = 1 THEN GroupHeaders(md, i + 1, s1)
       ELSE IF Len(sh) # 2 THEN [err |-> "ValueError", sections |-> s1]
       ELSE IF sh[1] \notin Kinds THEN GroupHeaders(md, i + 1, s1)
       ELSE IF s1[sh[1]].isTrue THEN [err |-> "AttributeError", sections |-> s1]
       ELSE GroupHeaders(md, i + 1,
                         [s1 EXCEPT ![sh[1]].ids = Append(@, sh[2])])

\* assert(resource): True and a non-empty list pass
Truthy(resource) == resource.isTrue \/ resource.ids # <<>>

\* ids1 == ids2 where ids2 is sections[kind]: a list never equals True, and
\* two lists are equal when they hold the same items in the same order
IdsEqual(ids1, resource) == ~resource.isTrue /\ ids1 = resource.ids

\* mutant of UniqueIds: uniq_resource_ids starts empty for every id list, so
\* an id is compared with the ids of its own list only
RECURSIVE UniqueIdsWithinList(_, _, _)
UniqueIdsWithinList(ids, n, uniq) ==
  IF n > Len(ids) THEN [out |-> Ok, uniq |-> uniq]
  ELSE IF \E m \in 1..(n - 1) : ids[m] = ids[n]
       THEN [out |-> DuplicateResourceId(ids[n]), uniq |-> uniq]
  ELSE UniqueIdsWithinList(ids, n + 1, uniq \cup {ids[n]})

\* the loop "for resource_id in _arrfy(...)" of the uniqueness check
RECURSIVE UniqueIds(_, _, _)
UniqueIds(ids, n, uniq) ==
  IF n > Len(ids) THEN [out |-> Ok, uniq |-> uniq]
  ELSE IF ids[n] \in uniq THEN [out |-> DuplicateResourceId(ids[n]), uniq |-> uniq]
  ELSE UniqueIds(ids, n + 1, uniq \cup {ids[n]})

\* the loop "for field in _REQUIRED_META[kind]" for one section
RECURSIVE CheckFields(_, _, _, _)
CheckFields(sec, req, j, uniq) ==
  IF j > Len(req) THEN [out |-> Ok, uniq |-> uniq]
  ELSE
    LET field  == req[j]
        fields == DOMAIN sec.fields
        found  == IF Len(field) > 1
                  THEN field[1] \in fields \/ field[2] \in fields
                  ELSE field[1] \in fields
    IN IF ~found THEN [out |-> MissingField(field, sec.hdr), uniq |-> uniq]
       ELSE IF Len(field) = 1 /\ field[1] \in ID_FIELDS
       THEN LET u == UniqueIds(arrfy(sec.fields[field[1]]), 1, uniq)
            IN IF u.out # Ok THEN u ELSE CheckFields(sec, req, j + 1, u.uniq)
       ELSE CheckFields(sec, req, j + 1, uniq)

\* one "if <kind> in section" block: getItems raises KeyError on a section
\* without the id-list field
CrossRef(sec, sections, parent, idField, child) ==
  IF ~Occurs(parent, sec.hdr) THEN Ok
  ELSE IF idField \notin DOMAIN sec.fields THEN Raised("KeyError")
  ELSE IF IdsEqual(arrfy(sec.fields[idField]), sections[child]) THEN Ok
  ELSE DanglingReference(parent, idField, child)

\* the three blocks in their order
CrossRefs(sec, sections) ==
  LET a == CrossRef(sec, sections, "fdp", "catalog_id", "catalog")
      b == CrossRef(sec, sections, "catalog", "dataset_id", "dataset")
      c == CrossRef(sec, sections, "dataset", "distribution_id", "distribution")
  IN IF a # Ok THEN a ELSE IF b # Ok THEN b ELSE c

\* the loop "for section in section_headers"
RECURSIVE CheckSections(_, _, _, _)
CheckSections(md, i, sections, uniq) ==
  IF i > Len(md) THEN Ok
  ELSE IF md[i].hdr[1] \notin Kinds THEN Raised("KeyError")
  ELSE LET r == CheckFields(md[i], REQUIRED_META[md[i].hdr[1]], 1, uniq)
       IN IF r.out # Ok THEN r.out
          ELSE LET x == CrossRefs(md[i], sections)
               IN IF x # Ok THEN x ELSE CheckSections(md, i + 1, sections, r.uniq)

\* _validate: the set of ways it can end. The loop over sections.items()
\* asserts the kinds in the dict's order, so with several kinds missing any
\* of them may be the one reported.
validate(md) ==
  LET g == GroupHeaders(md, 1, EmptySections)
      missing == {k \in Kinds : ~Truthy(g.sections[k])}
  IN IF g.err # "ok" THEN {Raised(g.err)}
     ELSE IF missing # {} THEN {MissingSection(k) : k \in missing}
     ELSE {CheckSections(md, 1, g.sections, {})}

(***************************************************************************)
(* FAIRConfigReader._read and getTriples                                   *)
(***************************************************************************)
\* "if '\n' in value: value = value.split('\n')": a raw value is the sequence
\* of its lines; one line stays a str, several lines become a list
readValue(lines) == [isList |-> Len(lines) > 1, items |-> lines]

\* _read up to the call of _validate: the parser's sections copied into the
\* _metadata dict; keys is the dict's iteration order over the headers
read(raw, keys) ==
  [i \in 1..Len(keys) |->
     [hdr |-> keys[i],
      fields |-> [f \in DOMAIN raw[keys[i]] |-> readValue(raw[keys[i]][f])]]]

\* every field name of the schema and the mapping table, in one fixed order:
\* the order in which a section's field dict is iterated
FieldOrder ==
  << "title", "publisher", "version", "issued", "modified", "fdp_id", "catalog_id",
     "dataset_id", "distribution_id", "theme_taxonomy", "theme", "access_url",
     "download_url", "media_type", "license", "description", "keyword",
     "lading_page", "comment" >>

\* the inner loops of getTriples for one (section, field)
ItemTriples(sec, f) ==
  [n \in 1..Len(sec.fields[f].items) |-> [s |-> sec.hdr, p |-> f, o |-> sec.fields[f].items[n]]]

RECURSIVE FieldTriples(_, _)
FieldTriples(sec, j) ==
  IF j > Len(FieldOrder) THEN <<>>
  ELSE (IF FieldOrder[j] \in DOMAIN sec.fields THEN ItemTriples(sec, FieldOrder[j]) ELSE <<>>)
       \o FieldTriples(sec, j + 1)

\* getTriples: the whole sequence the generator yields
RECURSIVE getTriples(_, _)
getTriples(md, i) ==
  IF i > Len(md) THEN <<>> ELSE FieldTriples(md[i], 1) \o getTriples(md, i + 1)

(***************************************************************************)
(* FAIRGraph                                                               *)
(***************************************************************************)
\* Uri(host) with scheme 'http'
BaseURI == "http://example.org"

docURI      == <<BaseURI, "doc">>
fdpURI      == <<BaseURI, "fdp">>
catURI(id)  == <<BaseURI, "catalog", id>>
datURI(id)  == <<BaseURI, "dataset", id>>
distURI(id) == <<BaseURI, "distribution", id>>

\* RDF terms: v is the lexical form, as the sequence of its '/'-separated parts
Str(text)          == [t |-> "str", v |-> <<text>>, dt |-> ""]
URIRef(parts)      == [t |-> "uri", v |-> parts, dt |-> ""]
Literal(o, dtype)  == [t |-> "lit", v |-> o.v, dt |-> dtype]

Pair(mp, dtype) == [pred |-> mp, dtype |-> dtype]

\* _ONTO_MAP_PREDICATE
ONTO_MAP_PREDICATE ==
  [p \in { "fdp_id", "catalog_id", "dataset_id", "distribution_id", "title",
           "description", "publisher", "issued", "modified", "version", "license",
           "theme", "theme_taxonomy", "lading_page", "keyword", "access_url",
           "download_url", "media_type" } |->
     CASE p = "fdp_id"          -> << Pair("dct:identifier", "string") >>
       [] p = "catalog_id"      -> << Pair("dct:hasPart", "anyURI") >>
       [] p = "dataset_id"      -> << Pair("dcat:dataset", "anyURI") >>
       [] p = "distribution_id" -> << Pair("dcat:distribution", "anyURI") >>
       [] p = "title"           -> << Pair("dct:title", "string"), Pair("rdfs:label", "string") >>
       [] p = "description"     -> << Pair("dct:description", "string") >>
       [] p = "publisher"       -> << Pair("dct:publisher", "anyURI") >>
       [] p = "issued"          -> << Pair("dct:issued", "date") >>
       [] p = "modified"        -> << Pair("dct:modified", "date") >>
       [] p = "version"         -> << Pair("dct:version", "string") >>
       [] p = "license"         -> << Pair("dct:license", "anyURI") >>
       [] p = "theme"           -> << Pair("dcat:theme", "anyURI") >>
       [] p = "theme_taxonomy"  -> << Pair("dcat:themeTaxonomy", "anyURI") >>
       [] p = "lading_page"     -> << Pair("dcat:landingPage", "anyURI") >>
       [] p = "keyword"         -> << Pair("dcat:keyword", "string") >>
       [] p = "access_url"      -> << Pair("dcat:accessURL", "anyURI") >>
       [] p = "download_url"    -> << Pair("dcat:downloadURL", "anyURI") >>
       [] p = "media_type"      -> << Pair("dcat:mediaType", "string") >>]

\* datetime.strptime(o, "%Y-%m-%d") on the date strings of the model: the
\* year, month and day it reads, or <<>> when the text does not match
ParseYMD(text) ==
  CASE text = "2020-02-29" -> <<2020, 2, 29>>
    [] text = "2020-02-30" -> <<2020, 2, 30>>
    [] text = "2019-02-29" -> <<2019, 2, 29>>
    [] text = "2020-13-01" -> <<2020, 13, 1>>
    [] OTHER -> <<>>

IsLeap(y) == (y % 4 = 0 /\ y % 100 # 0) \/ y % 400 = 0

DaysInMonth(y, m) ==
  IF m = 2 THEN (IF IsLeap(y) THEN 29 ELSE 28)
  ELSE IF m \in {4, 6, 9, 11} THEN 30 ELSE 31

\* strptime returns (TRUE) or raises ValueError (FALSE)
strptimeOk(o) ==
  /\ Len(o.v) = 1
  /\ LET ymd == ParseYMD(o.v[1])
     IN /\ ymd # <<>>
        /\ ymd[1] \in 1..9999
        /\ ymd[2] \in 1..12
        /\ ymd[3] \in 1..DaysInMonth(ymd[1], ymd[2])

\* '_id' in p, for the field names of the mapping table
HasIdInfix(p) == p \in ID_FIELDS

\* p.split('_')[0] for the id fields
SplitHead(p) ==
  CASE p = "fdp_id" -> "fdp"
    [] p = "catalog_id" -> "catalog"
    [] p = "dataset_id" -> "dataset"
    [] p = "distribution_id" -> "distribution"
    [] OTHER -> p

\* mutant of GraphAdd: the statements are kept as a list, so a statement
\* added again is stored again, under its position
GraphAddList(g, uri, p, o) ==
  g \cup {[c |-> uri, s |-> uri, p |-> p, o |-> o, n |-> Cardinality(g)]}

\* g.add((s, p, o)) on the context cg of uri: a graph is a set of quads
GraphAdd(g, uri, p, o) == g \cup {[c |-> uri, s |-> uri, p |-> p, o |-> o]}

\* the loop of _onto_map_predicate; o is rebound in every round
RECURSIVE OntoLoop(_, _, _, _, _, _)
OntoLoop(g, s, p, o, pairs, i) ==
  IF i > Len(pairs) THEN [graph |-> g, raised |-> FALSE]
  ELSE LET mp    == pairs[i].pred
           dtype == pairs[i].dtype
       IN IF dtype = "date" /\ ~strptimeOk(o) THEN [graph |-> g, raised |-> TRUE]
          ELSE LET o2 == IF dtype = "anyURI"
                         THEN URIRef(IF HasIdInfix(p) THEN <<"..", SplitHead(p)>> \o o.v ELSE o.v)
                         ELSE Literal(o, dtype)
               IN OntoLoop(GraphAdd(g, s, mp, o2), s, p, o2, pairs, i + 1)

\* mutant of onto_map_predicate: only the first (predicate, datatype) pair
\* of a field is mapped
onto_map_first_pair(g, s, p, o) ==
  IF p \in DOMAIN ONTO_MAP_PREDICATE
  THEN OntoLoop(g, s, p, o, SubSeq(ONTO_MAP_PREDICATE[p], 1, 1), 1)
  ELSE [graph |-> g, raised |-> FALSE]

\* _onto_map_predicate((g, s, p, o))
onto_map_predicate(g, s, p, o) ==
  IF p \in DOMAIN ONTO_MAP_PREDICATE
  THEN OntoLoop(g, s, p, o, ONTO_MAP_PREDICATE[p], 1)
  ELSE [graph |-> g, raised |-> FALSE]

\* the statements added before the mapping, per kind of resource
Bootstrap(g, uri, kind, id) ==
  IF kind = "fdp"
  THEN GraphAdd(GraphAdd(GraphAdd(g, uri, "rdf:type", URIRef(<<"dct:Agent">>)),
                         uri, "rdfs:seeAlso", URIRef(docURI)),
                uri, "dct:language", URIRef(<<"lang:en">>))
  ELSE GraphAdd(GraphAdd(GraphAdd(g, uri, "rdf:type",
                                  URIRef(<<CASE kind = "catalog" -> "dcat:Catalog"
                                             [] kind = "dataset" -> "dcat:Dataset"
                                             [] OTHER -> "dcat:Distribution">>)),
                         uri, "dct:language", URIRef(<<"lang:en">>)),
                uri, "dct:identifier", Literal(Str(id), "string"))

\* "'catalog/' in s": some segment but the last ends with the kind name (of
\* the tokens of the model only the kind name itself does)
OccursSlash(kind, s) == \E i \in 1..(Len(s) - 1) : s[i] = kind

\* the contexts setMetadata works on for section header s, in the order of
\* its four blocks: <<kind, uri, id>> per block whose condition holds
Blocks(s) ==
  (IF s = <<"fdp">> THEN << <<"fdp", fdpURI, "">> >> ELSE <<>>)
  \o (IF OccursSlash("catalog", s) THEN << <<"catalog", catURI(s[2]), s[2]>> >> ELSE <<>>)
  \o (IF OccursSlash("dataset", s) THEN << <<"dataset", datURI(s[2]), s[2]>> >> ELSE <<>>)
  \o (IF OccursSlash("distribution", s) THEN << <<"distribution", distURI(s[2]), s[2]>> >> ELSE <<>>)

RECURSIVE RunBlocks(_, _, _, _)
RunBlocks(g, blocks, n, triple) ==
  IF n > Len(blocks) THEN [graph |-> g, raised |-> FALSE]
  ELSE LET b == blocks[n]
           r == onto_map_predicate(Bootstrap(g, b[2], b[1], b[3]), b[2], triple.p, Str(triple.o))
       IN IF r.raised THEN r ELSE RunBlocks(r.graph, blocks, n + 1, triple)

\* setMetadata(triple): the graph it leaves and whether it raised
setMetadata(g, triple) == RunBlocks(g, Blocks(triple.s), 1, triple)

\* the contexts whose cg.add calls setMetadata(triple) reaches
Touched(g, triple) ==
  LET blocks == Blocks(triple.s)
  IN {blocks[n][2] : n \in {m \in 1..Len(blocks) :
                             \A k \in 1..(m - 1) :
                                ~RunBlocks(g, SubSeq(blocks, 1, k), 1, triple).raised}}

\* the statements of one context
Context(g, uri) == {q \in g : q.c = uri}

(***************************************************************************)
(* Bounds and inputs                                                       *)
(***************************************************************************)
\* sections in one document of CanonSets
MaxSections == 5
\* values of one added multi-valued field
MaxItems == 2
\* direct setMetadata calls in one run of SpecGraph
MaxCalls == 3

\* section headers of the documents
FdpHeaders  == { <<"fdp">>, <<"fdp", "r1">> }
CatHeaders  == { <<"catalog", "c1">>, <<"catalog", "c2">> }
DatHeaders  == { <<"dataset", "d1">>, <<"dataset", "d2">> }
DistHeaders == { <<"distribution", "x1">>, <<"distribution", "x2">> }
Regular     == FdpHeaders \cup CatHeaders \cup DatHeaders \cup DistHeaders
\* an unknown kind, a bare header of a kind with ids, a header with two '/',
\* an id that contains another kind's name, an id shared with a catalog
Odd == { <<"foo">>, <<"catalog">>, <<"catalog", "c1", "z">>, <<"distribution", "dataset1">>,
         <<"dataset", "c1">> }

\* the ids an id-list field may name, per parent kind, in file order
ChildIds ==
  [k \in {"fdp", "catalog", "dataset"} |->
     CASE k = "fdp"     -> <<"c1", "c2">>
       [] k = "catalog" -> <<"d1", "d2", "c1">>
       [] OTHER         -> <<"x1", "x2", "dataset1">>]

ChildKind(k) == CASE k = "fdp" -> "catalog" [] k = "catalog" -> "dataset" [] OTHER -> "distribution"
RefField(k)  == CASE k = "fdp" -> "catalog_id" [] k = "catalog" -> "dataset_id" [] OTHER -> "distribution_id"

DefaultLines(f) ==
  CASE f \in {"issued", "modified"} -> <<"2020-02-29">>
    [] f = "title" -> <<"Demo">>
    [] f = "theme" -> <<"t1", "t2">>
    [] OTHER -> <<"v">>

\* the first alternative of every required field of a kind
ReqNames(k) == {REQUIRED_META[k][j][1] : j \in 1..Len(REQUIRED_META[k])}

\* the orders in which a dict with keys S may be iterated
RECURSIVE Orders(_)
Orders(S) == IF S = {} THEN {<<>>} ELSE UNION {{<<x>> \o o : o \in Orders(S \ {x})} : x \in S}

\* the ids of the headers of kind k in hs that candidates lists, in its order
Present(candidates, k, hs) ==
  SelectSeq(candidates, LAMBDA id : <<k, id>> \in hs)

\* the complete field map of section h: every required field, the id-list
\* field with lines refs, fdp_id with fid
FullFields(h, refs, fid) ==
  IF h[1] \notin Kinds THEN [f \in {"title"} |-> DefaultLines(f)]
  ELSE [f \in ReqNames(h[1]) |->
          IF h[1] # "distribution" /\ f = RefField(h[1]) THEN refs
          ELSE IF f = "fdp_id" THEN <<fid>>
          ELSE DefaultLines(f)]

\* the repository's own id
FdpId(h) == IF Len(h) > 1 THEN h[2] ELSE "r0"

\* the id list of parent h that names exactly the child sections of hs (one
\* default id when there is none)
CanonRefs(h, hs) ==
  IF h[1] \notin {"fdp", "catalog", "dataset"} THEN <<>>
  ELSE LET ids == Present(ChildIds[h[1]], ChildKind(h[1]), hs)
       IN IF ids = <<>> THEN <<ChildIds[h[1]][1]>> ELSE ids

\* the document over headers hs in which every parent names its children
Canon(hs) == [h \in hs |-> FullFields(h, CanonRefs(h, hs), FdpId(h))]

\* any headers, at most one of them odd
CanonSets ==
  {hs \in SUBSET (Regular \cup Odd) :
     /\ hs # {}
     /\ Cardinality(hs) <= MaxSections
     /\ Cardinality(hs \cap Odd) <= 1}

\* one section of every kind, and at most one more section
BaseSets == {{f, <<"catalog", "c1">>, <<"dataset", "d1">>, <<"distribution", "x1">>} : f \in FdpHeaders}
RefSets  == BaseSets \cup {b \cup {h} : b \in BaseSets, h \in Regular}

Parents(hs) == {h \in hs : h[1] \in {"fdp", "catalog", "dataset"}}

\* the id lists a parent may hold, as indexes into its first two ChildIds
RefShapes == { <<1>>, <<2>>, <<1, 2>>, <<2, 1>> }

ShapeIds(k, shape) == [n \in 1..Len(shape) |-> ChildIds[k][shape[n]]]

\* documents whose parents list any ids
RefDocs(hs) ==
  {[h \in hs |-> FullFields(h, IF h \in Parents(hs) THEN ShapeIds(h[1], r[h]) ELSE <<>>, FdpId(h))] :
     r \in [Parents(hs) -> RefShapes]}

Without(fm, names) == [f \in (DOMAIN fm) \ names |-> fm[f]]
With(fm, name, lines) == [f \in (DOMAIN fm) \cup {name} |-> IF f = name THEN lines ELSE fm[f]]

\* one repository, one catalog, one dataset, one or two distributions
DropSets ==
  {{<<"fdp">>, <<"catalog", "c1">>, <<"dataset", "d1">>} \cup ds :
     ds \in {{<<"distribution", "x1">>}, {<<"distribution", "x1">>, <<"distribution", "x2">>},
             {<<"distribution", "dataset1">>}}}

\* documents that name their children and lack one required field (both
\* halves of an alternative pair) in one section, or hold the other half of
\* the pair, or name a child twice, or name the repository by another
\* resource's id, or hold one more field with 1..MaxItems values
DropDocs(hs) ==
  LET c == Canon(hs)
  IN {[c EXCEPT ![h] = Without(@, {f})] : h \in hs, f \in UNION {DOMAIN c[x] : x \in hs}}
     \cup {[c EXCEPT ![h] = With(Without(@, {"access_url"}), "download_url", <<"v">>)] : h \in hs}
     \cup {[c EXCEPT ![h] = With(@, RefField(h[1]), @[RefField(h[1])] \o @[RefField(h[1])])] :
             h \in Parents(hs)}
     \cup {[c EXCEPT ![<<"fdp">>] = With(@, "fdp_id", <<id>>)] : id \in {"c1", "d1", "x1"}}
     \cup (IF Cardinality(hs) > 4 THEN {}
           ELSE {[c EXCEPT ![h] = With(@, f, [n \in 1..k |-> "v"])] :
                   h \in hs, f \in {"keyword", "comment"}, k \in 1..MaxItems})

Documents ==
  {Canon(hs) : hs \in CanonSets}
  \cup UNION {RefDocs(hs) : hs \in RefSets}
  \cup UNION {DropDocs(hs) : hs \in DropSets}

(***************************************************************************)
(* The state machine                                                       *)
(***************************************************************************)
\* _metadata: the parser's sections in the dict's iteration order
metadata == read(parser, order)

NoTriple == [s |-> <<>>, p |-> "", o |-> ""]
NoCall   == [t |-> NoTriple, prev |-> NoTriple, pre |-> {}, raised |-> FALSE, touched |-> {}]

\* FAIRGraph(host) is constructed; the parser has read a file; no reader yet
Init ==
  /\ parser \in Documents
  /\ order = <<>>
  /\ vresult = Raised("none")
  /\ cursor = 0
  /\ graph = {}
  /\ last = NoCall
  /\ ncalls = 0

\* FAIRConfigReader(file_name): _read copies the sections and calls _validate
Construct ==
  /\ vresult.err = "none"
  /\ \E o \in Orders(DOMAIN parser) :
       /\ order' = o
       /\ vresult' \in validate(read(parser, o))
  /\ UNCHANGED <<parser, cursor, graph, last, ncalls>>

\* one call graph.setMetadata(triple)
Call(triple) ==
  LET r == setMetadata(graph, triple)
  IN /\ graph' = r.graph
     /\ last' = [t |-> triple, prev |-> last.t, pre |-> graph, raised |-> r.raised,
                 touched |-> Touched(graph, triple)]

\* one round of "for triple in reader.getTriples(): graph.setMetadata(triple)";
\* the reader exists only when _validate returned, and an exception ends the loop
LoadTriple ==
  /\ vresult.err = "ok"
  /\ ~last.raised
  /\ cursor < Len(getTriples(metadata, 1))
  /\ Call(getTriples(metadata, 1)[cursor + 1])
  /\ cursor' = cursor + 1
  /\ UNCHANGED <<parser, order, vresult, ncalls>>

Next == Construct \/ LoadTriple

Spec == Init /\ [][Next]_vars

(***************************************************************************)
(* FAIRGraph on its own: setMetadata called with any triple                *)
(***************************************************************************)
TripleSections == { <<"fdp">>, <<"catalog", "cat1">> }
TripleFields   == { "title", "issued", "dataset_id", "comment" }
TripleValues   == { "Demo", "2020-02-29", "2020-02-30" }
Triples == [s : TripleSections, p : TripleFields, o : TripleValues]

InitGraph ==
  /\ parser = <<>>
  /\ order = <<>>
  /\ vresult = Raised("none")
  /\ cursor = 0
  /\ graph = {}
  /\ last = NoCall
  /\ ncalls = 0

\* graph.setMetadata(triple) by a caller that goes on after an exception
SetMetadata ==
  /\ ncalls < MaxCalls
  /\ \E triple \in Triples : Call(triple)
  /\ ncalls' = ncalls + 1
  /\ UNCHANGED <<parser, order, vresult, cursor>>

NextGraph == SetMetadata

SpecGraph == InitGraph /\ [][NextGraph]_vars

(***************************************************************************)
(* Vocabulary of the claims                                                *)
(***************************************************************************)
Validated == vresult.err # "none"

Range(q) == {q[n] : n \in 1..Len(q)}

HeadersOfKind(k) == {h \in DOMAIN parser : h[1] = k}

\* the ids of the sections of kind k, from their headers
HeaderIds(k) == {h[2] : h \in {x \in HeadersOfKind(k) : Len(x) = 2}}

\* one bare repository section, one catalog, one dataset, one or more
\* distributions, every header but the repository's of the form kind/id
OneOfEach ==
  /\ \A h \in DOMAIN parser : h[1] \in Kinds /\ Len(h) = (IF h[1] = "fdp" THEN 1 ELSE 2)
  /\ \A k \in {"fdp", "catalog", "dataset"} : Cardinality(HeadersOfKind(k)) = 1
  /\ HeadersOfKind("distribution") # {}

\* every section holds every field its kind requires
FieldsComplete ==
  \A h \in DOMAIN parser :
    \A j \in 1..Len(REQUIRED_META[h[1]]) :
      Range(REQUIRED_META[h[1]][j]) \cap DOMAIN parser[h] # {}

\* every parent's id list is, as a set, the set of its child kind's header ids
RefsMatch ==
  \A h \in Parents(DOMAIN parser) :
    Range(parser[h][RefField(h[1])]) = HeaderIds(ChildKind(h[1]))

\* the resources a document declares: the repository by its fdp_id, the
\* others by their headers
Resources ==
  {<<"fdp", parser[h]["fdp_id"][1]>> : h \in {x \in HeadersOfKind("fdp") : "fdp_id" \in DOMAIN parser[x]}}
  \cup {<<h[1], h[2]>> : h \in {x \in DOMAIN parser : x[1] # "fdp"}}

\* the ids that two resources share
SharedIds == {r[2] : r \in {x \in Resources : \E y \in Resources : y # x /\ y[2] = x[2]}}

\* no id field names an id twice
NoRepeatedRef ==
  \A h \in Parents(DOMAIN parser) :
    Cardinality(Range(parser[h][RefField(h[1])])) = Len(parser[h][RefField(h[1])])

\* a document that meets every invariant of the data model
SpecValid == OneOfEach /\ FieldsComplete /\ RefsMatch /\ NoRepeatedRef /\ SharedIds = {}

\* one tuple per declared (field, value) pair and no other tuple
TriplesExact ==
  LET T == getTriples(metadata, 1)
      D == UNION {UNION {{<<h, f, n>> : n \in 1..Len(parser[h][f])} : f \in DOMAIN parser[h]} :
                    h \in DOMAIN parser}
      tripleOf(d) == [s |-> d[1], p |-> d[2], o |-> parser[d[1]][d[2]][d[3]]]
  IN /\ Len(T) = Cardinality(D)
     /\ \A d \in D :
          Cardinality({i \in 1..Len(T) : T[i] = tripleOf(d)})
            = Cardinality({e \in D : tripleOf(e) = tripleOf(d)})

\* the context a section identifier stands for: {base}/fdp, {base}/<kind>/<id>
DerivedURI(s) == IF s[1] = "fdp" THEN fdpURI ELSE <<BaseURI, s[1], s[2]>>

ValidationErrors == {"MissingSection", "MissingField", "DuplicateResourceId", "DanglingReference"}

(***************************************************************************)
(* Claims on FAIRConfigReader and the loading loop (Spec)                  *)
(***************************************************************************)
\* C1: validate() either accepts the structure or fails with one of
\* MissingSection, MissingField, DuplicateResourceId, DanglingReference; it
\* never ends in any other failure.
C1_OnlyValidationErrors ==
  Validated => vresult.err \in ValidationErrors \cup {"ok"}

\* C2: a document that meets every invariant except that one schema-required
\* field (for the alternative pair: both halves) is absent from one section
\* fails with MissingField naming that field and that section, in every
\* visiting order.
C2_MissingFieldNamed ==
  \A hs \in DropSets : \A h \in hs : \A j \in 1..Len(REQUIRED_META[h[1]]) :
    (Validated /\ parser = [Canon(hs) EXCEPT ![h] = Without(@, Range(REQUIRED_META[h[1]][j]))])
      => vresult = MissingField(REQUIRED_META[h[1]][j], h)

\* C3: a document in which two resources share an id (and which meets the
\* other invariants) fails with DuplicateResourceId naming that id.
C3_SharedIdReported ==
  (Validated /\ OneOfEach /\ FieldsComplete /\ RefsMatch /\ NoRepeatedRef /\ SharedIds # {})
    => (vresult.err = "DuplicateResourceId" /\ vresult.id \in SharedIds)

\* C4: a document that violates no other invariant fails with
\* DanglingReference exactly when some parent's id list differs, as a set,
\* from the set of its child kind's header ids; the order of the ids in the
\* field and the order of the sections make no difference.
C4_DanglingIffSetsDiffer ==
  (Validated /\ OneOfEach /\ FieldsComplete /\ NoRepeatedRef /\ SharedIds = {})
    => ((vresult.err = "DanglingReference") <=> ~RefsMatch)

\* C5: for a valid document with one repository, one catalog, one dataset and
\* one distribution validate() succeeds and getTriples() yields one tuple
\* per declared field-value pair and no other tuple.
C5_ValidDocumentRoundTrip ==
  (Validated /\ SpecValid /\ Cardinality(HeadersOfKind("distribution")) = 1)
    => (vresult = Ok /\ TriplesExact)

\* C6: every setMetadata call with a triple of an accepted document works on
\* exactly one context, the one derived from the section identifier's kind
\* and id, and adds statements to no other context.
C6_ExactlyOneContext ==
  cursor > 0 =>
    /\ last.touched = {DerivedURI(last.t.s)}
    /\ \A q \in graph \ last.pre : q.c = DerivedURI(last.t.s)

\* C10: every document that validate() accepts holds exactly one repository
\* section, one catalog section and one dataset section; a document with two
\* or more catalog sections or two or more dataset sections is rejected.
C10_OneRepositoryCatalogDataset ==
  /\ vresult.err = "ok" =>
       \A k \in {"fdp", "catalog", "dataset"} : Cardinality(HeadersOfKind(k)) = 1
  /\ (Validated /\ \E k \in {"catalog", "dataset"} : Cardinality(HeadersOfKind(k)) >= 2)
       => vresult.err # "ok"

\* an accepted document with two distribution sections
C10_Witness ==
  vresult.err = "ok" /\ Cardinality(HeadersOfKind("distribution")) = 2

(***************************************************************************)
(* Claims on FAIRGraph (SpecGraph)                                         *)
(***************************************************************************)
\* C7: ingesting a triple twice in a row leaves every context with the
\* statement set that ingesting it once leaves, from every mapper state and
\* for every triple.
C7_Idempotent ==
  /\ (last.t # NoTriple /\ last.t = last.prev) => graph = last.pre
  /\ \A t \in Triples :
       setMetadata(setMetadata(graph, t).graph, t).graph = setMetadata(graph, t).graph

\* a title triple ingested twice in a row into a mapper that held statements
\* of another context before
C7_Witness ==
  /\ ncalls = 3
  /\ last.t = last.prev
  /\ last.t.p = "title"
  /\ \E q \in last.pre : q.c # DerivedURI(last.t.s)

DemoTriple == [s |-> <<"catalog", "cat1">>, p |-> "title", o |-> "Demo"]

DemoStatements ==
  LET uri == <<BaseURI, "catalog", "cat1">>
      st(p, o) == [c |-> uri, s |-> uri, p |-> p, o |-> o]
  IN { st("rdf:type", [t |-> "uri", v |-> <<"dcat:Catalog">>, dt |-> ""]),
       st("dct:language", [t |-> "uri", v |-> <<"lang:en">>, dt |-> ""]),
       st("dct:identifier", [t |-> "lit", v |-> <<"cat1">>, dt |-> "string"]),
       st("dct:title", [t |-> "lit", v |-> <<"Demo">>, dt |-> "string"]),
       st("rdfs:label", [t |-> "lit", v |-> <<"Demo">>, dt |-> "string"]) }

\* C8: from an empty mapper, ingesting only (catalog/cat1, title, "Demo")
\* leaves the context {base}/catalog/cat1 with exactly the five statements
\* type, language, identifier, title and label, and no other statement.
C8_DemoCatalog ==
  (ncalls = 1 /\ last.t = DemoTriple) =>
    /\ Context(graph, catURI("cat1")) = DemoStatements
    /\ Cardinality(Context(graph, catURI("cat1"))) = 5
    /\ graph = Context(graph, catURI("cat1"))

C8_Witness == ncalls = 1 /\ last.t = DemoTriple /\ ~last.raised

\* C9: when a setMetadata call with a date-typed field fails on the date
\* format, the call adds no statement: every context is as before the call.
C9_FailedIngestAddsNothing ==
  (last.raised /\ last.t.p \in {"issued", "modified"}) => graph = last.pre

====
